---- MODULE Spec2Model ----
(***************************************************************************)
(* Model of the RepoRater backend (src/backend/index.js): one POST         *)
(* /evaluate request, from the arrival of the body to the HTTP response.   *)
(*                                                                         *)
(* Text on which the code does character work (the URL, repository names,  *)
(* descriptions, file paths) is a sequence of one-character strings.  The  *)
(* README is a sequence of UTF-16 code units (numbers).  Error messages    *)
(* and JSON keys, which the code only copies, are TLA+ strings.  JSON text *)
(* is a sequence of tokens.                                                *)
(***************************************************************************)
EXTENDS Integers, Sequences, FiniteSets, TLC

VARIABLES
    body,        \* req.body.repoUrl of the request (<<>>: missing or empty)
    env,         \* process.env: API_KEY and GEMINI_API_KEY ("" when unset)
    github,      \* what api.github.com answers to each of the five GETs
    gemini,      \* what generateContent does for each candidate model
    pc,          \* position of the handler
    ident,       \* { owner, repo } returned by extractRepoDetails
    sub,         \* state of the four promises given to Promise.allSettled
    treeBranch,  \* branch the file-tree promise is currently asking for
    ghCalls,     \* GitHub requests issued so far, in order
    modelCalls,  \* models attempted so far, in order
    repoData,    \* snapshot returned by fetchGithubData (NoData before)
    context,     \* result of detectContext ("" before)
    response,    \* the handler's `response` variable (NoResponse: undefined)
    lastError,   \* the handler's `lastError` variable (NoError: undefined)
    sent         \* HTTP responses written to res, in order

vars == <<body, env, github, gemini, pc, ident, sub, treeBranch, ghCalls,
          modelCalls, repoData, context, response, lastError, sent>>

(***************************************************************************)
(* Character strings                                                       *)
(***************************************************************************)

Upper == <<"A","B","C","D","E","F","G","H","I","J","K","L","M",
           "N","O","P","Q","R","S","T","U","V","W","X","Y","Z">>

Lower == <<"a","b","c","d","e","f","g","h","i","j","k","l","m",
           "n","o","p","q","r","s","t","u","v","w","x","y","z">>

\* String.prototype.toLowerCase, one character
LowerChar(c) ==
    IF \E i \in 1..26 : Upper[i] = c
    THEN Lower[CHOOSE i \in 1..26 : Upper[i] = c]
    ELSE c

\* String.prototype.toLowerCase
toLowerCase(s) == [i \in 1..Len(s) |-> LowerChar(s[i])]

\* s occurs in t starting at (1-based) position i
OccursAt(s, t, i) ==
    /\ i >= 1
    /\ i + Len(s) - 1 <= Len(t)
    /\ \A j \in 1..Len(s) : t[i + j - 1] = s[j]

\* String.prototype.includes
includes(t, s) == \E i \in 1..(Len(t) - Len(s) + 1) : OccursAt(s, t, i)

\* p.split('/').length: one more than the number of separators
SplitLength(p) == Cardinality({i \in 1..Len(p) : p[i] = "/"}) + 1

\* position of the first occurrence of s in t, 0 when there is none
IndexOf(t, s) ==
    IF includes(t, s)
    THEN CHOOSE i \in 1..(Len(t) - Len(s) + 1) :
            /\ OccursAt(s, t, i)
            /\ \A j \in 1..(i - 1) : ~OccursAt(s, t, j)
    ELSE 0

\* String.prototype.replace(s, '') with a string pattern: the first
\* occurrence only
RemoveFirst(t, s) ==
    LET i == IndexOf(t, s) IN
    IF i = 0 THEN t
    ELSE SubSeq(t, 1, i - 1) \o SubSeq(t, i + Len(s), Len(t))

(***************************************************************************)
(* extractRepoDetails                                                      *)
(***************************************************************************)

GithubCom == <<"g","i","t","h","u","b",".","c","o","m","/">>

DotGit == <<".","g","i","t">>

\* end of the maximal run of non-'/' characters of url that starts at i
\* (i - 1 when url[i] is '/' or i is past the end)
RunEnd(url, i) ==
    IF \E j \in i..Len(url) : url[j] = "/"
    THEN (CHOOSE j \in i..Len(url) :
            url[j] = "/" /\ \A k \in i..(j - 1) : url[k] # "/") - 1
    ELSE Len(url)

\* /github\.com\/([^\/]+)\/([^\/]+)/ matched with "github.com/" at i
MatchAt(url, i) ==
    LET o1 == i + Len(GithubCom)
        o2 == RunEnd(url, o1)
        r1 == o2 + 2
        r2 == RunEnd(url, r1)
    IN  /\ OccursAt(GithubCom, url, i)
        /\ o2 >= o1
        /\ o2 + 1 <= Len(url)
        /\ url[o2 + 1] = "/"
        /\ r2 >= r1

UrlMatches(url) == \E i \in 1..Len(url) : MatchAt(url, i)

\* the owner and repo of the leftmost match; '.git' removed from the repo
extractRepoDetails(url) ==
    LET i  == CHOOSE k \in 1..Len(url) :
                 MatchAt(url, k) /\ \A j \in 1..(k - 1) : ~MatchAt(url, j)
        o1 == i + Len(GithubCom)
        o2 == RunEnd(url, o1)
        r1 == o2 + 2
        r2 == RunEnd(url, r1)
    IN  [owner |-> SubSeq(url, o1, o2),
         repo  |-> RemoveFirst(SubSeq(url, r1, r2), DotGit)]

(***************************************************************************)
(* detectContext                                                           *)
(***************************************************************************)

dsaKeywords ==
    << <<"l","e","e","t","c","o","d","e">>,
       <<"h","a","c","k","e","r","r","a","n","k">>,
       <<"d","s","a">>,
       <<"a","l","g","o","r","i","t","h","m">>,
       <<"s","o","l","u","t","i","o","n","s">>,
       <<"c","p">>,
       <<"c","o","m","p","e","t","i","t","i","v","e">> >>

backendConfigs ==
    << <<"p","a","c","k","a","g","e",".","j","s","o","n">>,
       <<"r","e","q","u","i","r","e","m","e","n","t","s",".","t","x","t">>,
       <<"g","o",".","m","o","d">>,
       <<"C","a","r","g","o",".","t","o","m","l">> >>

\* isDSA without the case folding
isDSACaseSensitive(data) ==
    \E k \in 1..Len(dsaKeywords) :
        \/ includes(data.repo, dsaKeywords[k])
        \/ includes(data.description, dsaKeywords[k])

isDSA(data) ==
    \E k \in 1..Len(dsaKeywords) :
        \/ includes(toLowerCase(data.repo), dsaKeywords[k])
        \/ includes(toLowerCase(data.description), dsaKeywords[k])

\* hasBackendConfig with the path compared to the name, not searched for it
hasBackendConfigExact(data) ==
    \E f \in 1..Len(data.file_structure) :
        \E c \in 1..Len(backendConfigs) :
            data.file_structure[f] = backendConfigs[c]

hasBackendConfig(data) ==
    \E f \in 1..Len(data.file_structure) :
        \E c \in 1..Len(backendConfigs) :
            includes(data.file_structure[f], backendConfigs[c])

SMALL_REPO_FILES == 10

\* detectContext with the size test off by one
detectContextInclusive(data) ==
    IF isDSA(data) THEN "DSA"
    ELSE IF ~hasBackendConfig(data)
            /\ Len(data.file_structure) <= SMALL_REPO_FILES THEN "DSA"
    ELSE "Backend"

detectContext(data) ==
    IF isDSA(data) THEN "DSA"
    ELSE IF ~hasBackendConfig(data)
            /\ Len(data.file_structure) < SMALL_REPO_FILES THEN "DSA"
    ELSE "Backend"

(***************************************************************************)
(* fetchGithubData: shaping of the file tree and of the README             *)
(***************************************************************************)

FILE_LIMIT == 100

DEPTH_LIMIT == 3

README_LIMIT == 8000

Min(a, b) == IF a <= b THEN a ELSE b

\* Array.prototype.slice(0, n) and String.prototype.slice(0, n)
SliceTo(s, n) == SubSeq(s, 1, Min(n, Len(s)))

\* lines 60-64: keep blobs and trees, take the paths, keep depth <= 3,
\* keep the first 100
\* FilterTree with the first 100 nodes taken before the depth is tested
FilterTreeSliceFirst(tree) ==
    LET nodes == SelectSeq(tree, LAMBDA n : n.type = "blob" \/ n.type = "tree")
        paths == SliceTo([i \in 1..Len(nodes) |-> nodes[i].path], FILE_LIMIT)
    IN  SelectSeq(paths, LAMBDA p : SplitLength(p) <= DEPTH_LIMIT)

FilterTree(tree) ==
    LET nodes == SelectSeq(tree, LAMBDA n : n.type = "blob" \/ n.type = "tree")
        paths == [i \in 1..Len(nodes) |-> nodes[i].path]
        shallow == SelectSeq(paths, LAMBDA p : SplitLength(p) <= DEPTH_LIMIT)
    IN  SliceTo(shallow, FILE_LIMIT)

\* A base64 text is a sequence of numbers: 0..63 are the digits, B64Pad is
\* '=' and B64Newline is the line break GitHub puts in the content.
B64Pad == 64

B64Newline == 65

\* Buffer.from(content, 'base64'): characters outside the alphabet are
\* skipped, every four digits give three bytes, a trailing group of two or
\* three digits gives one or two bytes
Base64Decode(content) ==
    LET digits == SelectSeq(content, LAMBDA c : c < B64Pad)
        n == (Len(digits) * 3) \div 4
        ByteAt(d, k) ==
            LET g == 4 * ((k - 1) \div 3)
                r == (k - 1) % 3
            IN  IF r = 0 THEN d[g + 1] * 4 + (d[g + 2] \div 16)
                ELSE IF r = 1 THEN (d[g + 2] % 16) * 16 + (d[g + 3] \div 4)
                ELSE (d[g + 3] % 4) * 64 + d[g + 4]
    IN  [k \in 1..n |-> ByteAt(digits, k)]

\* Buffer.prototype.toString('utf-8') on well-formed one- and two-byte
\* sequences: a byte below 128 is its own code unit, a lead byte 192..223
\* and its continuation byte 128..191 make one code unit
Utf8ToString(bytes) ==
    LET idx == [i \in 1..Len(bytes) |-> i]
        leads == SelectSeq(idx, LAMBDA i : bytes[i] < 128 \/ bytes[i] >= 192)
        UnitAt(b, i) ==
            IF b[i] < 128 THEN b[i]
            ELSE (b[i] - 192) * 64 + (b[i + 1] - 128)
    IN  [k \in 1..Len(leads) |-> UnitAt(bytes, leads[k])]

\* lines 70-73
DecodeReadme(content) ==
    SliceTo(Utf8ToString(Base64Decode(content)), README_LIMIT)

(***************************************************************************)
(* JSON text, JSON.parse and JSON.stringify                                *)
(*                                                                         *)
(* A JSON text is a sequence of tokens [t, v, f]: t is the kind ("{", "}", *)
(* "[", "]", ":", ",", "ws", "str", "num"), v the value a literal denotes  *)
(* and f how the literal is written: a string "plain" or "escaped" (with   *)
(* an escape that JSON does not require, such as an escaped "/"), a number *)
(* "int", "exp" (8.5e1) or "frac" (85.0).  A JSON value is [t, v] with t   *)
(* one of "str", "num", "arr", "obj"; the members of an object are a       *)
(* sequence of [k, v] in property order.                                   *)
(***************************************************************************)

Punct(c) == [t |-> c, v |-> "", f |-> ""]

WS == [t |-> "ws", v |-> "", f |-> ""]

StrTok(s, f) == [t |-> "str", v |-> s, f |-> f]

NumTok(n, f) == [t |-> "num", v |-> n, f |-> f]

JStr(s) == [t |-> "str", v |-> s]

JNum(n) == [t |-> "num", v |-> n]

JArr(a) == [t |-> "arr", v |-> a]

JObj(m) == [t |-> "obj", v |-> m]

ParseFail == [ok |-> FALSE, val |-> JStr(""), next |-> 0]

\* obj[k] = v on an object under construction: a repeated key keeps its
\* place and takes the later value
PutMember(m, k, v) ==
    IF \E i \in 1..Len(m) : m[i].k = k
    THEN [i \in 1..Len(m) |-> IF m[i].k = k THEN [k |-> k, v |-> v] ELSE m[i]]
    ELSE Append(m, [k |-> k, v |-> v])

RECURSIVE ParseValue(_, _)
RECURSIVE ParseElems(_, _, _)
RECURSIVE ParseMembers(_, _, _)

TokIs(ts, i, t) == i <= Len(ts) /\ ts[i].t = t

ParseValue(ts, i) ==
    IF i > Len(ts) THEN ParseFail
    ELSE IF ts[i].t = "str" THEN [ok |-> TRUE, val |-> JStr(ts[i].v), next |-> i + 1]
    ELSE IF ts[i].t = "num" THEN [ok |-> TRUE, val |-> JNum(ts[i].v), next |-> i + 1]
    ELSE IF ts[i].t = "[" THEN
        IF TokIs(ts, i + 1, "]")
        THEN [ok |-> TRUE, val |-> JArr(<<>>), next |-> i + 2]
        ELSE ParseElems(ts, i + 1, <<>>)
    ELSE IF ts[i].t = "{" THEN
        IF TokIs(ts, i + 1, "}")
        THEN [ok |-> TRUE, val |-> JObj(<<>>), next |-> i + 2]
        ELSE ParseMembers(ts, i + 1, <<>>)
    ELSE ParseFail

ParseElems(ts, i, acc) ==
    LET r == ParseValue(ts, i) IN
    IF ~r.ok THEN ParseFail
    ELSE IF TokIs(ts, r.next, ",")
         THEN ParseElems(ts, r.next + 1, Append(acc, r.val))
    ELSE IF TokIs(ts, r.next, "]")
         THEN [ok |-> TRUE, val |-> JArr(Append(acc, r.val)), next |-> r.next + 1]
    ELSE ParseFail

ParseMembers(ts, i, acc) ==
    IF ~(TokIs(ts, i, "str") /\ TokIs(ts, i + 1, ":")) THEN ParseFail
    ELSE LET r == ParseValue(ts, i + 2) IN
         IF ~r.ok THEN ParseFail
         ELSE IF TokIs(ts, r.next, ",")
              THEN ParseMembers(ts, r.next + 1, PutMember(acc, ts[i].v, r.val))
         ELSE IF TokIs(ts, r.next, "}")
              THEN [ok |-> TRUE, val |-> JObj(PutMember(acc, ts[i].v, r.val)),
                    next |-> r.next + 1]
         ELSE ParseFail

\* JSON.parse: white space between tokens is skipped, the text must be
\* exactly one value; ok = FALSE stands for the SyntaxError it throws
JSONparse(text) ==
    LET ts == SelectSeq(text, LAMBDA k : k.t # "ws")
        r  == ParseValue(ts, 1)
    IN  IF r.ok /\ r.next = Len(ts) + 1 THEN r ELSE ParseFail

RECURSIVE JSONstringify(_)
RECURSIVE StringifyElems(_, _)
RECURSIVE StringifyMembers(_, _)

\* JSON.stringify without indentation: no white space, the shortest form of
\* every number, no escape that is not required
JSONstringify(val) ==
    IF val.t = "str" THEN <<StrTok(val.v, "plain")>>
    ELSE IF val.t = "num" THEN <<NumTok(val.v, "int")>>
    ELSE IF val.t = "arr"
         THEN <<Punct("[")>> \o StringifyElems(val.v, 1) \o <<Punct("]")>>
    ELSE <<Punct("{")>> \o StringifyMembers(val.v, 1) \o <<Punct("}")>>

StringifyElems(a, i) ==
    IF i > Len(a) THEN <<>>
    ELSE (IF i > 1 THEN <<Punct(",")>> ELSE <<>>)
         \o JSONstringify(a[i]) \o StringifyElems(a, i + 1)

StringifyMembers(m, i) ==
    IF i > Len(m) THEN <<>>
    ELSE (IF i > 1 THEN <<Punct(",")>> ELSE <<>>)
         \o <<StrTok(m[i].k, "plain"), Punct(":")>>
         \o JSONstringify(m[i].v) \o StringifyMembers(m, i + 1)

(***************************************************************************)
(* The request handler                                                     *)
(***************************************************************************)

\* JS null of the GitHub metadata: no string, since it is no sequence of
\* single characters
Null == <<"null">>

\* d || ''
OrEmpty(d) == IF d = Null \/ d = <<>> THEN <<>> ELSE d

\* modelNames with the two 2.5 models the other way round
modelNamesProFirst == <<"gemini-2.5-pro", "gemini-2.5-flash",
                        "gemini-1.5-flash", "gemini-1.5-pro">>

modelNames == <<"gemini-2.5-flash", "gemini-2.5-pro",
                "gemini-1.5-flash", "gemini-1.5-pro">>

NoData == [owner |-> <<>>, repo |-> <<>>, description |-> <<>>,
           stars |-> 0, forks |-> 0, open_issues |-> 0,
           readme |-> <<>>, file_structure |-> <<>>, languages |-> <<>>]

NoIdent == [owner |-> <<>>, repo |-> <<>>]

NoResponse == [defined |-> FALSE, text |-> <<>>]

NoError == [defined |-> FALSE, message |-> ""]

\* message of the SyntaxError JSON.parse throws
SyntaxErrorMessage == "Unexpected token in JSON"

\* the object { error: e }
ErrorBody(e) == JObj(<<[k |-> "error", v |-> JStr(e)]>>)

\* the object { error: e, details: d }
ErrorDetailsBody(e, d) ==
    JObj(<<[k |-> "error", v |-> JStr(e)], [k |-> "details", v |-> JStr(d)]>>)

\* Reply with a line break after the JSON text
ReplyNewline(st, val) == [status |-> st, body |-> JSONstringify(val) \o <<WS>>]

\* res.status(st).json(val): the body is JSON.stringify(val)
Reply(st, val) == [status |-> st, body |-> JSONstringify(val)]

\* apiKey read from API_KEY alone
apiKeyFirstNameOnly == env.API_KEY

\* process.env.API_KEY || process.env.GEMINI_API_KEY
apiKey == IF env.API_KEY # "" THEN env.API_KEY ELSE env.GEMINI_API_KEY

\* line 129-131: repoUrl missing or empty
MissingUrl ==
    /\ pc = "start"
    /\ body = <<>>
    /\ sent' = Append(sent, Reply(400, ErrorBody("Repo URL is required")))
    /\ pc' = "done"
    /\ UNCHANGED <<body, env, github, gemini, ident, sub, treeBranch, ghCalls,
                   modelCalls, repoData, context, response, lastError>>

\* line 133-136: no API key under either name
MissingKey ==
    /\ pc = "start"
    /\ body # <<>>
    /\ apiKey = ""
    /\ sent' = Append(sent, Reply(500, ErrorBody("Gemini API key missing")))
    /\ pc' = "done"
    /\ UNCHANGED <<body, env, github, gemini, ident, sub, treeBranch, ghCalls,
                   modelCalls, repoData, context, response, lastError>>

\* InvalidUrl with the error of extractRepoDetails leaving the handler:
\* the request ends and nothing is answered
InvalidUrlUncaught ==
    /\ pc = "start"
    /\ body # <<>>
    /\ apiKey # ""
    /\ ~UrlMatches(body)
    /\ pc' = "done"
    /\ UNCHANGED <<body, env, github, gemini, ident, sub, treeBranch, ghCalls,
                   modelCalls, repoData, context, response, lastError, sent>>

\* line 139 with line 23: extractRepoDetails throws, the handler's catch
\* (lines 251-254) answers with the message of the error
InvalidUrl ==
    /\ pc = "start"
    /\ body # <<>>
    /\ apiKey # ""
    /\ ~UrlMatches(body)
    /\ sent' = Append(sent, Reply(500, ErrorBody("Invalid GitHub URL")))
    /\ pc' = "done"
    /\ UNCHANGED <<body, env, github, gemini, ident, sub, treeBranch, ghCalls,
                   modelCalls, repoData, context, response, lastError>>

\* lines 139-48: the identifier is extracted and fetchGithubData issues its
\* four requests, the file tree for branch main
StartFetch ==
    /\ pc = "start"
    /\ body # <<>>
    /\ apiKey # ""
    /\ UrlMatches(body)
    /\ ident' = extractRepoDetails(body)
    /\ sub' = [meta |-> "pending", languages |-> "pending",
               tree |-> "pending", readme |-> "pending"]
    /\ treeBranch' = "main"
    /\ ghCalls' = <<"repo", "languages", "trees/main", "readme">>
    /\ pc' = "fetch"
    /\ UNCHANGED <<body, env, github, gemini, modelCalls, repoData, context,
                   response, lastError, sent>>

\* the metadata, languages or README request settles
Settle(r) ==
    /\ pc = "fetch"
    /\ sub[r] = "pending"
    /\ sub' = [sub EXCEPT ![r] = IF github[r].ok THEN "fulfilled" ELSE "rejected"]
    /\ UNCHANGED <<body, env, github, gemini, pc, ident, treeBranch, ghCalls,
                   modelCalls, repoData, context, response, lastError, sent>>

\* SettleTreeMain without the catch of line 44: a failure of the request
\* for main is the failure of the tree request
SettleTreeMainNoFallback ==
    /\ pc = "fetch"
    /\ sub.tree = "pending"
    /\ treeBranch = "main"
    /\ sub' = [sub EXCEPT !.tree = IF github.main.ok THEN "fulfilled"
                                                     ELSE "rejected"]
    /\ UNCHANGED <<body, env, github, gemini, pc, ident, treeBranch, ghCalls,
                   modelCalls, repoData, context, response, lastError, sent>>

\* lines 42-46: the request for branch main settles; its failure is caught
\* and the tree of branch master is asked for
SettleTreeMain ==
    /\ pc = "fetch"
    /\ sub.tree = "pending"
    /\ treeBranch = "main"
    /\ IF github.main.ok
       THEN /\ sub' = [sub EXCEPT !.tree = "fulfilled"]
            /\ UNCHANGED <<treeBranch, ghCalls>>
       ELSE /\ treeBranch' = "master"
            /\ ghCalls' = Append(ghCalls, "trees/master")
            /\ UNCHANGED sub
    /\ UNCHANGED <<body, env, github, gemini, pc, ident, modelCalls, repoData,
                   context, response, lastError, sent>>

\* line 45: the request for branch master settles
SettleTreeMaster ==
    /\ pc = "fetch"
    /\ sub.tree = "pending"
    /\ treeBranch = "master"
    /\ sub' = [sub EXCEPT !.tree = IF github.master.ok THEN "fulfilled"
                                                       ELSE "rejected"]
    /\ UNCHANGED <<body, env, github, gemini, pc, ident, treeBranch, ghCalls,
                   modelCalls, repoData, context, response, lastError, sent>>

\* AllSettled that is also over as soon as the metadata request is
\* rejected
AllSettledFailFast ==
    \/ sub.meta = "rejected"
    \/ \A r \in DOMAIN sub : sub[r] \in {"fulfilled", "rejected"}

\* lines 39-48: the promise of Promise.allSettled resolves
AllSettled == \A r \in DOMAIN sub : sub[r] \in {"fulfilled", "rejected"}

\* FetchRejected with the failure of the metadata request passed over: the
\* handler goes on to the first candidate model without a snapshot
FetchRejectedGoesOn ==
    /\ pc = "fetch"
    /\ AllSettled
    /\ sub.meta = "rejected"
    /\ modelCalls' = <<modelNames[1]>>
    /\ pc' = "model"
    /\ UNCHANGED <<body, env, github, gemini, ident, sub, treeBranch, ghCalls,
                   repoData, context, response, lastError, sent>>

\* lines 50-52, 87-90 and 251-254: Promise.allSettled has resolved and the
\* metadata request was rejected.  The error thrown at line 51 is caught at
\* line 87 and replaced; the handler answers with the replacement's message
FetchRejected ==
    /\ pc = "fetch"
    /\ AllSettled
    /\ sub.meta = "rejected"
    /\ sent' = Append(sent, Reply(500, ErrorBody("Failed to fetch repository data")))
    /\ pc' = "done"
    /\ UNCHANGED <<body, env, github, gemini, ident, sub, treeBranch, ghCalls,
                   modelCalls, repoData, context, response, lastError>>

\* Snapshot with the three optional answers used only when all of them
\* arrived
SnapshotAllOrNothing ==
    LET all == sub.readme = "fulfilled" /\ sub.tree = "fulfilled"
               /\ sub.languages = "fulfilled"
    IN  [owner          |-> ident.owner,
         repo           |-> ident.repo,
         description    |-> OrEmpty(github.meta.description),
         stars          |-> github.meta.stargazers_count,
         forks          |-> github.meta.forks_count,
         open_issues    |-> github.meta.open_issues_count,
         readme         |-> IF all THEN DecodeReadme(github.readme.content) ELSE <<>>,
         file_structure |-> IF all THEN FilterTree(github[treeBranch].tree) ELSE <<>>,
         languages      |-> IF all THEN github.languages.data ELSE <<>>]

\* lines 54-86: the snapshot
Snapshot ==
    [owner          |-> ident.owner,
     repo           |-> ident.repo,
     description    |-> OrEmpty(github.meta.description),
     stars          |-> github.meta.stargazers_count,
     forks          |-> github.meta.forks_count,
     open_issues    |-> github.meta.open_issues_count,
     readme         |-> IF sub.readme = "fulfilled"
                        THEN DecodeReadme(github.readme.content) ELSE <<>>,
     file_structure |-> IF sub.tree = "fulfilled"
                        THEN FilterTree(github[treeBranch].tree) ELSE <<>>,
     languages      |-> IF sub.languages = "fulfilled"
                        THEN github.languages.data ELSE <<>>]

\* FetchReturned with the context detected on the paths of the whole tree,
\* not on the file list of the snapshot
FetchReturnedWholeTree ==
    LET tree  == IF sub.tree = "fulfilled" THEN github[treeBranch].tree ELSE <<>>
        paths == [i \in 1..Len(tree) |-> tree[i].path]
    IN  /\ pc = "fetch"
        /\ AllSettled
        /\ sub.meta = "fulfilled"
        /\ repoData' = Snapshot
        /\ context' = detectContext([Snapshot EXCEPT !.file_structure = paths])
        /\ modelCalls' = <<modelNames[1]>>
        /\ pc' = "model"
        /\ UNCHANGED <<body, env, github, gemini, ident, sub, treeBranch, ghCalls,
                       response, lastError, sent>>

\* lines 54-86 and 140-153: Promise.allSettled has resolved and the metadata
\* request was fulfilled: the snapshot is returned, the context detected and
\* the first candidate model called
FetchReturned ==
    /\ pc = "fetch"
    /\ AllSettled
    /\ sub.meta = "fulfilled"
    /\ repoData' = Snapshot
    /\ context' = detectContext(Snapshot)
    /\ modelCalls' = <<modelNames[1]>>
    /\ pc' = "model"
    /\ UNCHANGED <<body, env, github, gemini, ident, sub, treeBranch, ghCalls,
                   response, lastError, sent>>

\* place of a candidate in modelNames
Candidate(name) == CHOOSE i \in 1..Len(modelNames) : modelNames[i] = name

\* what generateContent does for the model called last
Outcome == gemini[Candidate(modelCalls[Len(modelCalls)])]

\* lastError?.message || 'Unknown error'
Details(err) ==
    IF err.defined /\ err.message # "" THEN err.message ELSE "Unknown error"

\* ModelFails with the first error kept in lastError, not the last
ModelFailsKeepsFirst ==
    LET i   == Len(modelCalls)
        err == IF lastError.defined THEN lastError
               ELSE [defined |-> TRUE, message |-> Outcome.message]
    IN  /\ pc = "model"
        /\ Outcome.kind = "error"
        /\ lastError' = err
        /\ IF i < Len(modelNames)
           THEN /\ modelCalls' = Append(modelCalls, modelNames[i + 1])
                /\ UNCHANGED <<pc, sent>>
           ELSE /\ sent' = Append(sent,
                       Reply(500, ErrorDetailsBody(
                           "Failed to connect to any Gemini model", Details(err))))
                /\ pc' = "done"
                /\ UNCHANGED modelCalls
        /\ UNCHANGED <<body, env, github, gemini, ident, sub, treeBranch,
                       ghCalls, repoData, context, response>>

\* lines 231-243: the current model call is rejected; the next candidate is
\* called, or after the last one the request is answered
ModelFails ==
    LET i   == Len(modelCalls)
        err == [defined |-> TRUE, message |-> Outcome.message]
    IN  /\ pc = "model"
        /\ Outcome.kind = "error"
        /\ lastError' = err
        /\ IF i < Len(modelNames)
           THEN /\ modelCalls' = Append(modelCalls, modelNames[i + 1])
                /\ UNCHANGED <<pc, sent>>
           ELSE /\ sent' = Append(sent,
                       Reply(500, ErrorDetailsBody(
                           "Failed to connect to any Gemini model", Details(err))))
                /\ pc' = "done"
                /\ UNCHANGED modelCalls
        /\ UNCHANGED <<body, env, github, gemini, ident, sub, treeBranch,
                       ghCalls, repoData, context, response>>

\* ModelReturns with a reply without text taken as a failure of the
\* candidate: the next candidate is called, and after the last one the
\* request is answered as when every call was rejected
ModelReturnsRetriesEmpty ==
    LET text   == Outcome.text
        parsed == JSONparse(text)
        i      == Len(modelCalls)
    IN  /\ pc = "model"
        /\ Outcome.kind = "ok"
        /\ IF text = <<>>
           THEN /\ UNCHANGED response
                /\ IF i < Len(modelNames)
                   THEN /\ modelCalls' = Append(modelCalls, modelNames[i + 1])
                        /\ UNCHANGED <<pc, sent>>
                   ELSE /\ sent' = Append(sent,
                               Reply(500, ErrorDetailsBody(
                                   "Failed to connect to any Gemini model",
                                   Details(lastError))))
                        /\ pc' = "done"
                        /\ UNCHANGED modelCalls
           ELSE /\ response' = [defined |-> TRUE, text |-> text]
                /\ sent' = Append(sent,
                       IF ~parsed.ok THEN Reply(500, ErrorBody(SyntaxErrorMessage))
                       ELSE Reply(200, parsed.val))
                /\ pc' = "done"
                /\ UNCHANGED modelCalls
        /\ UNCHANGED <<body, env, github, gemini, ident, sub, treeBranch,
                       ghCalls, repoData, context, lastError>>

\* lines 229-230 and 245-254: the current model call is fulfilled, the loop
\* is left and the reply text answered
ModelReturns ==
    LET text   == Outcome.text
        parsed == JSONparse(text)
    IN  /\ pc = "model"
        /\ Outcome.kind = "ok"
        /\ response' = [defined |-> TRUE, text |-> text]
        /\ sent' = Append(sent,
             IF text = <<>> THEN Reply(500, ErrorBody("AI failed to respond"))
             ELSE IF ~parsed.ok THEN Reply(500, ErrorBody(SyntaxErrorMessage))
             ELSE Reply(200, parsed.val))
        /\ pc' = "done"
        /\ UNCHANGED <<body, env, github, gemini, ident, sub, treeBranch,
                       ghCalls, modelCalls, repoData, context, lastError>>

Next ==
    \/ MissingUrl
    \/ MissingKey
    \/ InvalidUrl
    \/ StartFetch
    \/ \E r \in {"meta", "languages", "readme"} : Settle(r)
    \/ SettleTreeMain
    \/ SettleTreeMaster
    \/ FetchRejected
    \/ FetchReturned
    \/ ModelFails
    \/ ModelReturns

(***************************************************************************)
(* Inputs                                                                  *)
(***************************************************************************)

\* how many more entries than FILE_LIMIT the largest tree has
MaxTreeOver == 2

\* how many more characters than README_LIMIT the longest README has
MaxReadmeOver == 1

\* how many more entries than SMALL_REPO_FILES a small tree has
MaxSmallOver == 3

\* s repeated to the length n
Cycle(s, n) == [i \in 1..n |-> s[((i - 1) % Len(s)) + 1]]

Scheme == <<"h","t","t","p","s",":","/","/">>

OwnerInput == <<"a","c","m","e">>

\* repository names as written in the URL
NameInputs ==
    << <<"a","p","p">>,
       <<"l","e","e","t","c","o","d","e">>,
       <<"h","a","c","k","e","r","r","a","n","k">>,
       <<"d","s","a">>,
       <<"a","l","g","o","r","i","t","h","m">>,
       <<"s","o","l","u","t","i","o","n","s">>,
       <<"c","p">>,
       <<"c","o","m","p","e","t","i","t","i","v","e">>,
       <<"D","S","A","-","N","o","t","e","s">>,
       <<"M","y","-","L","e","e","t","C","o","d","e">>,
       <<"s","c","p","-","t","o","o","l">>,
       <<"c","-","p">>,
       <<"a","l","g","o">>,
       <<"s","o","l","u","t","i","o","n">>,
       <<"a","p","p",".","g","i","t">>,
       <<"d",".","g","i","t","s","a">> >>

Url(name) == Scheme \o GithubCom \o OwnerInput \o <<"/">> \o name

\* URLs the pattern does not match
BadUrlInputs ==
    << <<"g","i","t","l","a","b",".","c","o","m","/","a","c","m","e","/","a","p","p">>,
       <<"g","i","t","h","u","b",".","c","o","m","/","a","c","m","e">>,
       <<"g","i","t","h","u","b",".","c","o","m","/","/","a","p","p">>,
       <<"g","i","t","h","u","b",".","c","o","m","/","a","c","m","e","/">>,
       <<"a","c","m","e","/","a","p","p">>,
       <<"g","i","t","h","u","b",".","c","o","m">> >>

\* URLs the pattern matches and that are not of the form Url(name)
OddUrlInputs ==
    << <<"g","i","t","h","u","b",".","c","o","m","/","a","c","m","e","/","a","p","p","/","t","r","e","e","/","m","a","i","n">>,
       <<"w","w","w",".","g","i","t","h","u","b",".","c","o","m","/","a","c","m","e","/","c","p","?","t","a","b","=","r","e","a","d","m","e">>,
       <<"x",".","c","o","m","/","g","i","t","h","u","b",".","c","o","m","/","g","i","t","h","u","b",".","c","o","m","/","a","c","m","e","/","a","p","p">> >>

DescriptionInputs ==
    << Null, <<>>,
       <<"w","e","b"," ","a","p","i">>,
       <<"M","y"," ","D","S","A"," ","n","o","t","e","s">>,
       <<"C","o","m","p","e","t","i","t","i","v","e"," ","c","o","d","i","n","g">>,
       <<"a"," ","t","o","o","l">> >>

\* nodes of a recursive git tree
NodeInputs ==
    << [type |-> "blob", path |-> <<"a",".","p","y">>],
       [type |-> "tree", path |-> <<"s","r","c">>],
       [type |-> "blob", path |-> <<"s","r","c","/","l","i","b","/","b",".","p","y">>],
       [type |-> "blob", path |-> <<"a","/","b","/","c","/","d",".","p","y">>],
       [type |-> "blob", path |-> <<"p","a","c","k","a","g","e",".","j","s","o","n">>],
       [type |-> "blob", path |-> <<"s","r","v","/","r","e","q","u","i","r","e","m","e","n","t","s",".","t","x","t">>],
       [type |-> "blob", path |-> <<"a","/","b","/","c","/","g","o",".","m","o","d">>],
       [type |-> "blob", path |-> <<"x","/","C","a","r","g","o",".","t","o","m","l",".","b","a","k">>],
       [type |-> "blob", path |-> <<"c","a","r","g","o",".","t","o","m","l">>],
       [type |-> "blob", path |-> <<"p","a","c","k","a","g","e","-","l","o","c","k",".","j","s","o","n">>],
       [type |-> "commit", path |-> <<"g","o",".","m","o","d">>],
       [type |-> "blob", path |-> <<"g","o",".","m","o","d">>] >>

\* the tree of n nodes that repeats the nodes pat of NodeInputs
TreeOf(pat, n) == Cycle([i \in 1..Len(pat) |-> NodeInputs[pat[i]]], n)

SmallTreeSizes ==
    {0, 2} \cup {SMALL_REPO_FILES + k : k \in -1..MaxSmallOver}

LargeTreeSizes ==
    {FILE_LIMIT + k : k \in 0..MaxTreeOver}
    \cup {2 * FILE_LIMIT + k : k \in 0..MaxTreeOver}

\* base64 of "aaa" and of the three bytes C3 A9 61 (e acute, a)
B64Ascii == <<24, 22, 5, 33>>

B64Latin == <<48, 58, 37, 33>>

\* base64 text of a README of n characters 'a', with the padding and the
\* line breaks of the GitHub API
AsciiReadme(n) ==
    LET digits == (4 * n + 2) \div 3
        pad    == (4 - (digits % 4)) % 4
        cut    == Cycle(B64Ascii, digits)
        \* the unused low bits of the last digit of a cut group are zero
        last   == IF digits % 4 = 2 THEN 16 ELSE IF digits % 4 = 3 THEN 4 ELSE 33
    IN  [i \in 1..digits |-> IF i = digits THEN last ELSE cut[i]]
        \o Cycle(<<B64Pad>>, pad) \o <<B64Newline>>

\* base64 text of a README of 2 * n characters, every other one two bytes long
LatinReadme(n) == Cycle(B64Latin, 4 * n) \o <<B64Newline>>

ReadmeSizes == {0, 1, 2, 3} \cup {README_LIMIT + k : k \in -1..MaxReadmeOver}

ReadmeInputs ==
    {AsciiReadme(n) : n \in ReadmeSizes}
    \cup {LatinReadme(n) : n \in {1, README_LIMIT \div 2, README_LIMIT \div 2 + MaxReadmeOver}}

\* --- replies of the generation service ---

Member(k, v) == [k |-> k, v |-> v]

BreakdownInput ==
    JObj(<<Member("documentation", JNum("80")), Member("structure", JNum("70")),
           Member("code_quality", JNum("90")), Member("best_practices", JNum("60"))>>)

\* values of the declared schema: the second one with the members in another
\* order, a context outside the rubric, a score above 100 and empty arrays
EvalInputs ==
    << JObj(<<Member("context", JStr("DSA")),
              Member("score", JNum("85")),
              Member("breakdown", BreakdownInput),
              Member("summary", JStr("solid")),
              Member("suggestions", JArr(<<JStr("add tests"), JStr("add CI")>>)),
              Member("production_gaps", JArr(<<JStr("no CI")>>))>>),
       JObj(<<Member("summary", JStr("")),
              Member("production_gaps", JArr(<<>>)),
              Member("suggestions", JArr(<<>>)),
              Member("score", JNum("150")),
              Member("context", JStr("Frontend")),
              Member("breakdown", JObj(<<>>))>>) >>

\* values outside the schema: a required member missing, a member of the
\* wrong type, no object
OffSchemaInputs ==
    << JObj(<<Member("context", JStr("DSA")), Member("summary", JStr("solid"))>>),
       JObj(<<Member("context", JStr("DSA")),
              Member("score", JStr("high")),
              Member("breakdown", BreakdownInput),
              Member("summary", JStr("solid")),
              Member("suggestions", JArr(<<>>)),
              Member("production_gaps", JArr(<<>>))>>),
       JArr(<<JNum("85")>>) >>

\* how a text is written: white space after ':' and ',' and around the
\* text, the form of the numbers, the form of the string values
Styles == [ws : BOOLEAN, num : {"int", "exp", "frac"}, str : {"plain", "escaped"}]

Compact == [ws |-> FALSE, num |-> "int", str |-> "plain"]

RECURSIVE Render(_, _)
RECURSIVE RenderElems(_, _, _)
RECURSIVE RenderMembers(_, _, _)

Sep(c, st) == IF st.ws THEN <<Punct(c), WS>> ELSE <<Punct(c)>>

Render(val, st) ==
    IF val.t = "str" THEN <<StrTok(val.v, st.str)>>
    ELSE IF val.t = "num" THEN <<NumTok(val.v, st.num)>>
    ELSE IF val.t = "arr"
         THEN <<Punct("[")>> \o RenderElems(val.v, 1, st) \o <<Punct("]")>>
    ELSE <<Punct("{")>> \o RenderMembers(val.v, 1, st) \o <<Punct("}")>>

RenderElems(a, i, st) ==
    IF i > Len(a) THEN <<>>
    ELSE (IF i > 1 THEN Sep(",", st) ELSE <<>>)
         \o Render(a[i], st) \o RenderElems(a, i + 1, st)

RenderMembers(m, i, st) ==
    IF i > Len(m) THEN <<>>
    ELSE (IF i > 1 THEN Sep(",", st) ELSE <<>>)
         \o <<StrTok(m[i].k, "plain")>> \o Sep(":", st)
         \o Render(m[i].v, st) \o RenderMembers(m, i + 1, st)

\* the text of a value in a style
TextOf(val, st) ==
    IF st.ws THEN <<WS>> \o Render(val, st) \o <<WS>> ELSE Render(val, st)

GoodText == TextOf(EvalInputs[1], Compact)

\* texts of the schema
SchemaTexts == {TextOf(EvalInputs[i], st) : i \in 1..Len(EvalInputs), st \in Styles}

\* texts of values outside the schema, and the first value with its score
\* written twice
OffSchemaTexts ==
    {TextOf(OffSchemaInputs[i], st) : i \in 1..Len(OffSchemaInputs),
                                     st \in {Compact, [Compact EXCEPT !.ws = TRUE]}}
    \cup {SubSeq(GoodText, 1, Len(GoodText) - 1)
          \o <<Punct(","), StrTok("score", "plain"), Punct(":"), NumTok("20", "int"),
               Punct("}")>>}

\* texts that are no JSON: cut short, a trailing comma, a lone bracket, two
\* values
BrokenTexts ==
    { SubSeq(GoodText, 1, Len(GoodText) - 1),
      SubSeq(GoodText, 1, Len(GoodText) - 1) \o <<Punct(","), Punct("}")>>,
      <<Punct("]")>>,
      GoodText \o GoodText }

\* messages of the errors generateContent is rejected with, by candidate
FailureInputs == <<"404 model not found", "429 quota exceeded",
                   "503 overloaded", "fetch failed">>

Ok(text) == [kind |-> "ok", message |-> "", text |-> text]

Err(msg) == [kind |-> "error", message |-> msg, text |-> <<>>]

\* the first k candidates fail, candidate i with its message of
\* FailureInputs or, where blank[i], with an empty message; the others
\* reply text
Script(k, blank, text) ==
    [i \in 1..Len(modelNames) |->
        IF i <= k THEN Err(IF blank[i] THEN "" ELSE FailureInputs[i])
        ELSE Ok(text)]

Scripts(texts) ==
    {Script(k, blank, text) : k \in 0..Len(modelNames),
                              blank \in [1..Len(modelNames) -> BOOLEAN],
                              text \in texts}

\* --- answers of the GitHub API ---

SubRequests == {"meta", "languages", "main", "master", "readme"}

Flags == [SubRequests -> BOOLEAN]

AllOk == [r \in SubRequests |-> TRUE]

Github(f, desc, mainTree, masterTree, content) ==
    [meta      |-> [ok |-> f.meta, description |-> desc, stargazers_count |-> 5,
                    forks_count |-> 1, open_issues_count |-> 2],
     languages |-> [ok |-> f.languages, data |-> ("Python" :> 1200)],
     main      |-> [ok |-> f.main, tree |-> mainTree],
     master    |-> [ok |-> f.master, tree |-> masterTree],
     readme    |-> [ok |-> f.readme, content |-> content]]

Envs == [API_KEY : {"", "k1"}, GEMINI_API_KEY : {"", "k2"}]

(***************************************************************************)
(* Specifications                                                          *)
(***************************************************************************)

\* a request arrives in a world of the given bodies, environments, GitHub
\* answers and model behaviours
InitIn(B, E, G, M) ==
    /\ body \in B
    /\ env \in E
    /\ github \in G
    /\ gemini \in M
    /\ pc = "start"
    /\ ident = NoIdent
    /\ sub = [meta |-> "idle", languages |-> "idle", tree |-> "idle",
              readme |-> "idle"]
    /\ treeBranch = ""
    /\ ghCalls = <<>>
    /\ modelCalls = <<>>
    /\ repoData = NoData
    /\ context = ""
    /\ response = NoResponse
    /\ lastError = NoError
    /\ sent = <<>>

TwoTrees == << TreeOf(<<1, 5>>, 2), TreeOf(<<1, 2>>, SMALL_REPO_FILES + 1) >>

\* every kind of request, each with small data
InitBase ==
    InitIn({<<>>, BadUrlInputs[1], Url(NameInputs[1])},
           {[API_KEY |-> "", GEMINI_API_KEY |-> ""],
            [API_KEY |-> "k1", GEMINI_API_KEY |-> ""]},
           {Github(f, DescriptionInputs[3], TwoTrees[1], TwoTrees[2], AsciiReadme(3)) :
                f \in {AllOk, [AllOk EXCEPT !.meta = FALSE],
                       [AllOk EXCEPT !.main = FALSE],
                       [AllOk EXCEPT !.main = FALSE, !.master = FALSE]}},
           {Script(0, [i \in 1..4 |-> FALSE], GoodText),
            Script(4, [i \in 1..4 |-> FALSE], GoodText)})

Key1 == [API_KEY |-> "k1", GEMINI_API_KEY |-> ""]

NoBlank == [i \in 1..Len(modelNames) |-> FALSE]

SmallGithub(f) ==
    Github(f, DescriptionInputs[3], TwoTrees[1], TwoTrees[2], AsciiReadme(3))

\* requests that differ in the body and in the environment
InitBodies ==
    InitIn({<<>>}
             \cup {BadUrlInputs[i] : i \in 1..Len(BadUrlInputs)}
             \cup {OddUrlInputs[i] : i \in 1..Len(OddUrlInputs)}
             \cup {Url(NameInputs[1])},
           Envs,
           {SmallGithub(AllOk), SmallGithub([AllOk EXCEPT !.meta = FALSE])},
           {Script(0, NoBlank, GoodText)})

\* requests that differ in what the candidate models do
InitModels ==
    InitIn({Url(NameInputs[1])}, {Key1}, {SmallGithub(AllOk)},
           Scripts(SchemaTexts \cup OffSchemaTexts \cup BrokenTexts \cup {<<>>}))

Init == InitBase \/ InitBodies \/ InitModels

Spec == Init /\ [][Next]_vars

\* requests that differ in the name and the description of the repository
ClassifyTrees ==
    << <<>>, TreeOf(<<1, 3>>, 2), TreeOf(<<1, 5>>, 2),
       TreeOf(<<1, 2, 3>>, SMALL_REPO_FILES - 1),
       TreeOf(<<1, 2, 3>>, SMALL_REPO_FILES),
       TreeOf(<<1, 2, 12>>, SMALL_REPO_FILES + MaxSmallOver) >>

InitNames ==
    InitIn({Url(NameInputs[i]) : i \in 1..Len(NameInputs)}, {Key1},
           {Github(AllOk, DescriptionInputs[d], ClassifyTrees[t], <<>>, AsciiReadme(3)) :
                d \in 1..Len(DescriptionInputs), t \in 1..Len(ClassifyTrees)},
           {Script(0, NoBlank, GoodText)})

\* requests that differ in the file tree: a filler node (a file, or a file
\* too deep to be listed) alternating with every node of NodeInputs
InitTrees ==
    InitIn({Url(NameInputs[1]), Url(NameInputs[7]), Url(NameInputs[9])}, {Key1},
           {Github(AllOk, DescriptionInputs[d], TreeOf(<<a, b>>, n), <<>>, AsciiReadme(3)) :
                d \in {1, 4}, a \in {1, 4}, b \in 1..Len(NodeInputs),
                n \in SmallTreeSizes},
           {Script(0, NoBlank, GoodText)})

InitClassify == InitBase \/ InitNames \/ InitTrees

SpecClassify == InitClassify /\ [][Next]_vars

\* requests that differ in which GitHub requests fail, in the size of the
\* tree and in the size of the README
FetchPatterns == {<<1>>, <<1, 4>>, <<2, 11, 3>>, <<5, 7, 1, 10>>}

InitFailures ==
    InitIn({Url(NameInputs[1])}, {Key1},
           {SmallGithub(f) : f \in Flags},
           {Script(0, NoBlank, GoodText)})

InitSizes ==
    InitIn({Url(NameInputs[1])}, {Key1},
           {Github(f, DescriptionInputs[3], TreeOf(p, n), TreeOf(<<3, 1>>, n),
                   AsciiReadme(3)) :
                f \in {AllOk, [AllOk EXCEPT !.main = FALSE]},
                p \in FetchPatterns, n \in LargeTreeSizes}
           \cup {Github(AllOk, DescriptionInputs[3], t, <<>>, c) :
                t \in {TwoTrees[1], TreeOf(<<1, 4>>, 2 * FILE_LIMIT + MaxTreeOver)},
                c \in ReadmeInputs},
           {Script(0, NoBlank, GoodText)})

InitFetch == InitBase \/ InitFailures \/ InitSizes

SpecFetch == InitFetch /\ [][Next]_vars

\* every awaited call settles in the end and the event loop then runs the
\* continuation of the handler that waits for it: a request that is not
\* finished goes on.  Next is enabled exactly in the states with
\* pc # "done", so this is WF_vars(Next) with its ENABLED written out
SpecLive == Spec /\ ([]<>(pc = "done") \/ []<><<Next>>_vars)

(***************************************************************************)
(* Properties of detectContext                                             *)
(***************************************************************************)

\* the same letter, whatever the case
SameLetter(c, d) ==
    c = d \/ \E i \in 1..26 : (c = Upper[i] /\ d = Lower[i]) \/ (c = Lower[i] /\ d = Upper[i])

\* the text has the word as a substring, case ignored
HasWord(text, word) ==
    \E i \in 0..(Len(text) - Len(word)) :
        \A j \in 1..Len(word) : SameLetter(text[i + j], word[j])

\* the name or the description of the snapshot has a DSA keyword
KeywordMatch(data) ==
    \E k \in 1..Len(dsaKeywords) :
        HasWord(data.repo, dsaKeywords[k]) \/ HasWord(data.description, dsaKeywords[k])

\* a path of the snapshot has a backend-config filename as a substring
ConfigPath(data) ==
    \E f \in 1..Len(data.file_structure) :
        \E c \in 1..Len(backendConfigs) :
            \E i \in 0..(Len(data.file_structure[f]) - Len(backendConfigs[c])) :
                SubSeq(data.file_structure[f], i + 1, i + Len(backendConfigs[c]))
                    = backendConfigs[c]

\* detectContext has run on the snapshot of this request
Classified == context # ""

\* C1: a snapshot whose name or description has a DSA keyword (case
\* ignored, as a substring) is classified DSA, whatever its file list
C1_KeywordIsDSA ==
    (Classified /\ KeywordMatch(repoData)) => context = "DSA"

\* a keyword snapshot with a backend-config path and 10 or more paths
C1_Witness ==
    /\ Classified
    /\ KeywordMatch(repoData)
    /\ ConfigPath(repoData)
    /\ Len(repoData.file_structure) >= SMALL_REPO_FILES
    /\ context = "DSA"

\* C2 as stated: a snapshot with a backend-config path is classified
\* Backend, whatever the number of paths
C2_ConfigIsBackend ==
    (Classified /\ ConfigPath(repoData)) => context = "Backend"

\* C2 amended: a snapshot with a backend-config path and no DSA keyword in
\* its name or description is classified Backend, whatever the number of
\* paths
C2_ConfigIsBackendUnlessKeyword ==
    (Classified /\ ConfigPath(repoData) /\ ~KeywordMatch(repoData))
        => context = "Backend"

\* a snapshot without keyword, with a backend-config path that is not the
\* bare filename, and fewer than 10 paths
C2_Witness ==
    /\ Classified
    /\ ~KeywordMatch(repoData)
    /\ ConfigPath(repoData)
    /\ \A f \in 1..Len(repoData.file_structure) :
          \A c \in 1..Len(backendConfigs) : repoData.file_structure[f] # backendConfigs[c]
    /\ Len(repoData.file_structure) < SMALL_REPO_FILES
    /\ context = "Backend"

\* C3: fewer than 10 paths and no backend-config path give DSA; no keyword,
\* no backend-config path and 10 or more paths give Backend; there is no
\* third result
C3_SizeDecides ==
    Classified =>
        /\ (Len(repoData.file_structure) < SMALL_REPO_FILES /\ ~ConfigPath(repoData))
              => context = "DSA"
        /\ (~KeywordMatch(repoData) /\ ~ConfigPath(repoData)
               /\ Len(repoData.file_structure) >= SMALL_REPO_FILES)
              => context = "Backend"
        /\ context \in {"DSA", "Backend"}

\* a snapshot without keyword and without backend-config path of exactly 10
\* paths
C3_Witness ==
    /\ Classified
    /\ ~KeywordMatch(repoData)
    /\ ~ConfigPath(repoData)
    /\ Len(repoData.file_structure) = SMALL_REPO_FILES
    /\ context = "Backend"

(***************************************************************************)
(* Properties of fetchGithubData                                           *)
(***************************************************************************)

\* fetchGithubData has returned a snapshot
Returned == repoData # NoData

\* the tree the file-tree promise was fulfilled with (none: the empty tree)
UsedTree == IF sub.tree = "fulfilled" THEN github[treeBranch].tree ELSE <<>>

\* number of '/'-separated segments of a path
Segments(path) == 1 + Len(SelectSeq(path, LAMBDA c : c = "/"))

\* the node is a file or a directory at most 3 segments deep
Qualifies(n) == n.type \in {"blob", "tree"} /\ Segments(n.path) <= 3

\* number of qualifying nodes among the first j nodes of the tree
Rank(tree, j) == Cardinality({i \in 1..j : Qualifies(tree[i])})

\* length of the README as GitHub holds it, in characters: every byte of
\* the content that is no continuation byte starts one
FullReadmeLength ==
    Len(SelectSeq(Base64Decode(github.readme.content),
                  LAMBDA b : b < 128 \/ b >= 192))

\* C4: the file list of a returned snapshot has at most 100 entries, each of
\* at most 3 segments; they are the first qualifying paths of the tree in
\* the order of the tree; the README has at most 8000 characters
C4_SizeBounds ==
    Returned =>
        LET fs == repoData.file_structure IN
        /\ Len(fs) <= 100
        /\ \A k \in 1..Len(fs) : Segments(fs[k]) <= 3
        /\ Len(fs) = Min(100, Rank(UsedTree, Len(UsedTree)))
        /\ \A j \in 1..Len(UsedTree) :
              (Qualifies(UsedTree[j]) /\ Rank(UsedTree, j) <= 100)
                 => fs[Rank(UsedTree, j)] = UsedTree[j].path
        /\ Len(repoData.readme) <= 8000

\* a snapshot cut to 100 entries, from a tree that has deeper paths among
\* its first 100 nodes and more than 100 qualifying nodes, and cut to 8000
\* characters of a longer README
C4_Witness ==
    /\ Returned
    /\ Len(repoData.file_structure) = 100
    /\ Rank(UsedTree, Len(UsedTree)) > 100
    /\ \E j \in 1..100 : ~Qualifies(UsedTree[j])
    /\ Len(repoData.readme) = 8000
    /\ FullReadmeLength > 8000

\* C7: with the metadata request fulfilled, fetchGithubData returns a
\* snapshot whichever of the other three requests failed: a failed one
\* leaves its field empty, a fulfilled one fills its field, and the request
\* goes on to the model without an error response
C7_PartialFailure ==
    (pc \in {"model", "done"} /\ sub.meta = "fulfilled") =>
        /\ Returned
        /\ repoData.languages =
              (IF sub.languages = "rejected" THEN <<>> ELSE github.languages.data)
        /\ sub.tree = "rejected" => repoData.file_structure = <<>>
        /\ sub.tree = "fulfilled" =>
              Len(repoData.file_structure) = Min(100, Rank(UsedTree, Len(UsedTree)))
        /\ sub.readme = "rejected" => repoData.readme = <<>>
        /\ sub.readme = "fulfilled" =>
              Len(repoData.readme) = Min(8000, FullReadmeLength)
        /\ modelCalls # <<>>
        /\ \A i \in 1..Len(sent) :
              sent[i].body # JSONstringify(ErrorBody("Failed to fetch repository data"))

\* a snapshot returned after the README and the languages requests failed and
\* the tree request was fulfilled with a tree that has listable nodes
C7_Witness ==
    /\ Returned
    /\ sub = [meta |-> "fulfilled", languages |-> "rejected",
              tree |-> "fulfilled", readme |-> "rejected"]
    /\ repoData.languages = <<>>
    /\ repoData.readme = <<>>
    /\ repoData.file_structure # <<>>

(***************************************************************************)
(* Properties of the handler                                               *)
(***************************************************************************)

\* the request has been answered with exactly this one response
AnsweredWith(st, val) == sent = <<[status |-> st, body |-> JSONstringify(val)]>>

\* C5 as stated: a request whose metadata sub-request is rejected ends with
\* status 500 and the body {"error":"Repository not found or private"}
C5_MetadataFailureBody ==
    (pc = "done" /\ sub.meta = "rejected")
        => AnsweredWith(500, ErrorBody("Repository not found or private"))

\* C6 as stated: a request whose repoUrl is present and does not match
\* github.com/<owner>/<repo> ends with status 400 and without any outbound
\* call (looked at with an API key configured, where the URL is what
\* decides the response)
C6_BadUrlIs400 ==
    (pc = "done" /\ body # <<>> /\ ~UrlMatches(body) /\ apiKey # "")
        => /\ Len(sent) = 1
           /\ sent[1].status = 400
           /\ ghCalls = <<>>
           /\ modelCalls = <<>>

\* the candidate model at place i was called and its call was rejected
Failed(i) == i <= Len(modelCalls) /\ gemini[Candidate(modelCalls[i])].kind = "error"

\* C8: the candidates are called in the order gemini-2.5-flash,
\* gemini-2.5-pro, gemini-1.5-flash, gemini-1.5-pro, each at most once, a
\* candidate only after all the earlier ones failed, and none after a call
\* that succeeded
C8_ModelOrder ==
    LET order == <<"gemini-2.5-flash", "gemini-2.5-pro",
                   "gemini-1.5-flash", "gemini-1.5-pro">>
    IN  /\ Len(modelCalls) <= Len(order)
        /\ \A i \in 1..Len(modelCalls) :
              /\ modelCalls[i] = order[i]
              /\ \A j \in 1..(i - 1) : Failed(j)
        /\ response.defined =>
              /\ modelCalls # <<>>
              /\ ~Failed(Len(modelCalls))
              /\ pc = "done"

\* the third candidate answered after the first two had failed
C8_Witness ==
    /\ Len(modelCalls) = 3
    /\ Failed(1) /\ Failed(2)
    /\ response.defined
    /\ pc = "done"

\* all the candidates were called and every call was rejected
AllFailed ==
    /\ Len(modelCalls) = Len(modelNames)
    /\ \A i \in 1..Len(modelNames) : Failed(i)

\* message of the error of the candidate called last
LastMessage == gemini[Candidate(modelCalls[Len(modelCalls)])].message

\* a response whose body is an object with the member error = e
HasError(r, e) ==
    LET val == JSONparse(r.body).val IN
    /\ val.t = "obj"
    /\ \E m \in 1..Len(val.v) :
          val.v[m].k = "error" /\ val.v[m].v.t = "str" /\ val.v[m].v.v = e

\* a response with the all-models-failed error was sent
SentConnectError ==
    \E i \in 1..Len(sent) :
        sent[i].status = 500
        /\ HasError(sent[i], "Failed to connect to any Gemini model")

\* C9 as stated: the request ends with 500, error 'Failed to connect to any
\* Gemini model' and details = the message of the last candidate's error if
\* and only if every candidate failed
C9_DetailsIsLastMessage ==
    pc = "done" =>
        /\ AllFailed =>
              AnsweredWith(500, ErrorDetailsBody(
                  "Failed to connect to any Gemini model", LastMessage))
        /\ SentConnectError => AllFailed

\* C9 amended: the same, with details = 'Unknown error' when the last
\* candidate's error has an empty message
C9_DetailsIsLastMessageOrUnknown ==
    pc = "done" =>
        /\ AllFailed =>
              AnsweredWith(500, ErrorDetailsBody(
                  "Failed to connect to any Gemini model",
                  IF LastMessage = "" THEN "Unknown error" ELSE LastMessage))
        /\ SentConnectError => AllFailed

\* every candidate failed, the last one with a message of its own, and the
\* request was answered with that message
C9_Witness ==
    /\ pc = "done"
    /\ AllFailed
    /\ LastMessage # ""
    /\ \A i \in 1..(Len(modelNames) - 1) : gemini[i].message # LastMessage
    /\ SentConnectError

\* --- the declared schema (lines 194-226) ---

Required == <<"context", "score", "breakdown", "summary", "suggestions",
              "production_gaps">>

PropertyType == [context |-> "str", score |-> "num", breakdown |-> "obj",
                 summary |-> "str", suggestions |-> "arr",
                 production_gaps |-> "arr"]

BreakdownProperties == {"documentation", "structure", "code_quality",
                        "best_practices"}

\* the member has a declared name and the declared type
MemberConforms(m) ==
    /\ m.k \in DOMAIN PropertyType
    /\ m.v.t = PropertyType[m.k]
    /\ m.v.t = "arr" => \A i \in 1..Len(m.v.v) : m.v.v[i].t = "str"
    /\ m.v.t = "obj" =>
          \A i \in 1..Len(m.v.v) :
              m.v.v[i].k \in BreakdownProperties /\ m.v.v[i].v.t = "num"

\* the value is an object of the declared schema
Conforms(val) ==
    /\ val.t = "obj"
    /\ \A i \in 1..Len(val.v) : MemberConforms(val.v[i])
    /\ \A r \in 1..Len(Required) : \E i \in 1..Len(val.v) : val.v[i].k = Required[r]

\* number of member names written in the text
NamesWritten(text) ==
    LET ts == SelectSeq(text, LAMBDA k : k.t # "ws")
    IN  Cardinality({i \in 1..(Len(ts) - 1) : ts[i].t = "str" /\ ts[i + 1].t = ":"})

RECURSIVE MemberCount(_)
\* number of members of the value and of the objects in it
MemberCount(val) ==
    IF val.t = "obj"
    THEN LET n[i \in 0..Len(val.v)] ==
                 IF i = 0 THEN 0 ELSE n[i - 1] + 1 + MemberCount(val.v[i].v)
         IN  n[Len(val.v)]
    ELSE 0

\* the text is JSON of the declared schema, every member written once
TextConforms(text) ==
    /\ JSONparse(text).ok
    /\ Conforms(JSONparse(text).val)
    /\ NamesWritten(text) = MemberCount(JSONparse(text).val)

\* the text has no white space, no escape JSON does not require and every
\* number in its shortest form
IsCompact(text) ==
    \A i \in 1..Len(text) : text[i].t # "ws" /\ text[i].f \in {"", "plain", "int"}

\* the model replied a text of the declared schema and the request is over
RepliedInSchema ==
    pc = "done" /\ response.defined /\ TextConforms(response.text)

OffSchema(text) == ~JSONparse(text).ok \/ ~Conforms(JSONparse(text).val)

\* C11 as stated: a model call that succeeds with a reply text that is
\* present and does not conform to the declared schema ends the request
\* with one response of status 500
C11_OffSchemaIs500 ==
    (pc = "done" /\ response.defined /\ response.text # <<>>
        /\ OffSchema(response.text))
        => /\ Len(sent) = 1
           /\ sent[1].status = 500

\* C12: with repoUrl present and neither API_KEY nor GEMINI_API_KEY set the
\* request ends with 500 and an error body, and no GitHub request and no
\* model call is made; with one of the two set the request passes the
\* credential check: it goes on to the URL, which is rejected or fetched
C12_CredentialCheck ==
    (pc # "start" /\ body # <<>>) =>
        IF env.API_KEY = "" /\ env.GEMINI_API_KEY = ""
        THEN /\ pc = "done"
             /\ Len(sent) = 1
             /\ sent[1].status = 500
             /\ HasError(sent[1], "Gemini API key missing")
             /\ ghCalls = <<>>
             /\ modelCalls = <<>>
        ELSE /\ \A i \in 1..Len(sent) : ~HasError(sent[i], "Gemini API key missing")
             /\ IF UrlMatches(body) THEN ghCalls # <<>>
                ELSE AnsweredWith(500, ErrorBody("Invalid GitHub URL"))

\* a request with a well-formed URL answered 500 for want of a key
C12_Witness ==
    /\ pc = "done"
    /\ UrlMatches(body)
    /\ env.API_KEY = "" /\ env.GEMINI_API_KEY = ""
    /\ Len(sent) = 1
    /\ sent[1].status = 500
    /\ ghCalls = <<>>


\* a response whose body is a JSON object with a member error that is a
\* string
ErrorEnvelope(r) ==
    LET parsed == JSONparse(r.body) IN
    /\ parsed.ok
    /\ parsed.val.t = "obj"
    /\ \E m \in 1..Len(parsed.val.v) :
          parsed.val.v[m].k = "error" /\ parsed.val.v[m].v.t = "str"

\* C13: with every outbound call settling in the end, a request is answered
\* exactly once on every path: never twice, a finished request has its one
\* response, every request finishes, and every response other than 200 is a
\* JSON object with a string member error
C13_ExactlyOneResponse ==
    /\ [](/\ Len(sent) <= 1
          /\ pc = "done" => Len(sent) = 1
          /\ \A i \in 1..Len(sent) :
                sent[i].status # 200 => ErrorEnvelope(sent[i]))
    /\ <>[](pc = "done" /\ Len(sent) = 1)

\* a reply that is no JSON was answered by the catch of the handler, once
C13_Witness ==
    /\ pc = "done"
    /\ response.defined
    /\ response.text # <<>>
    /\ ~JSONparse(response.text).ok
    /\ Len(sent) = 1
    /\ sent[1].status = 500
    /\ ErrorEnvelope(sent[1])


(***************************************************************************)
(* Properties of the join of the four requests                             *)
(***************************************************************************)

\* what a request ends as when it is looked at alone: by the answer GitHub
\* has for it, the tree request by the answers for main and for master
EndOf(r) ==
    IF r = "tree"
    THEN IF github.main.ok \/ github.master.ok THEN "fulfilled" ELSE "rejected"
    ELSE IF github[r].ok THEN "fulfilled" ELSE "rejected"

\* the snapshot by the answers of GitHub alone
SnapshotByAnswers ==
    [owner          |-> ident.owner,
     repo           |-> ident.repo,
     description    |-> OrEmpty(github.meta.description),
     stars          |-> github.meta.stargazers_count,
     forks          |-> github.meta.forks_count,
     open_issues    |-> github.meta.open_issues_count,
     readme         |-> IF github.readme.ok
                        THEN DecodeReadme(github.readme.content) ELSE <<>>,
     file_structure |-> IF github.main.ok THEN FilterTree(github.main.tree)
                        ELSE IF github.master.ok THEN FilterTree(github.master.tree)
                        ELSE <<>>,
     languages      |-> IF github.languages.ok THEN github.languages.data ELSE <<>>]

\* fetchGithubData has returned or thrown
Decided == ghCalls # <<>> /\ pc \in {"model", "done"}

\* C14: fetchGithubData decides only after its four requests have settled;
\* in whatever order they complete, a request that is rejected leaves the
\* others to end as they would alone, and the snapshot returned or the error
\* raised is the one the answers determine
C14_JoinAll ==
    /\ ghCalls # <<>> =>
          \A r \in DOMAIN sub : sub[r] \in {"pending", EndOf(r)}
    /\ Decided =>
          /\ \A r \in DOMAIN sub : sub[r] = EndOf(r)
          /\ IF github.meta.ok
             THEN /\ repoData = SnapshotByAnswers
                  /\ \A i \in 1..Len(sent) :
                        ~HasError(sent[i], "Failed to fetch repository data")
             ELSE /\ repoData = NoData
                  /\ AnsweredWith(500, ErrorBody("Failed to fetch repository data"))

\* the metadata request was rejected first; of the others one has since
\* been fulfilled and one is still under way, and nothing is decided yet
C14_Witness ==
    /\ pc = "fetch"
    /\ sub.meta = "rejected"
    /\ sub.languages = "fulfilled"
    /\ sub.readme = "pending"
    /\ sent = <<>>


\* place of a request in ghCalls, 0 when it was not made
CallPlace(c) ==
    IF \E i \in 1..Len(ghCalls) : ghCalls[i] = c
    THEN CHOOSE i \in 1..Len(ghCalls) : ghCalls[i] = c
    ELSE 0

\* the tree request has asked for branch main and has its answer
MainAnswered == ghCalls # <<>> /\ (sub.tree # "pending" \/ treeBranch = "master")

\* C15: the tree request asks for branch main first and for branch master
\* if and only if the request for main failed; it fails, and file_structure
\* is empty, only when both failed; when main succeeds its tree is the one
\* used and master is never asked for
C15_MainThenMaster ==
    /\ ghCalls # <<>> =>
          /\ CallPlace("trees/main") > 0
          /\ Cardinality({i \in 1..Len(ghCalls) : ghCalls[i] = "trees/main"}) = 1
          /\ Cardinality({i \in 1..Len(ghCalls) : ghCalls[i] = "trees/master"}) <= 1
          /\ CallPlace("trees/master") > 0 =>
                /\ CallPlace("trees/main") < CallPlace("trees/master")
                /\ ~github.main.ok
    /\ MainAnswered => (CallPlace("trees/master") > 0 <=> ~github.main.ok)
    /\ (ghCalls # <<>> /\ sub.tree = "rejected") <=>
          (CallPlace("trees/master") > 0 /\ sub.tree # "pending"
           /\ ~github.main.ok /\ ~github.master.ok)
    /\ Returned =>
          repoData.file_structure =
             (IF github.main.ok THEN FilterTree(github.main.tree)
              ELSE IF github.master.ok THEN FilterTree(github.master.tree)
              ELSE <<>>)

\* main failed, master was asked for and answered, and the snapshot lists
\* the tree of master, which is not the tree of main
C15_Witness ==
    /\ Returned
    /\ ~github.main.ok
    /\ github.master.ok
    /\ ghCalls = <<"repo", "languages", "trees/main", "readme", "trees/master">>
    /\ sub.tree = "fulfilled"
    /\ repoData.file_structure = FilterTree(github.master.tree)
    /\ repoData.file_structure # FilterTree(github.main.tree)
    /\ repoData.file_structure # <<>>


(***************************************************************************)
(* Order of the steps of a request                                         *)
(***************************************************************************)

\* the context the snapshot of this request classifies as
ContextOf(data) ==
    IF KeywordMatch(data) THEN "DSA"
    ELSE IF ~ConfigPath(data) /\ Len(data.file_structure) < SMALL_REPO_FILES THEN "DSA"
    ELSE "Backend"

\* a response with status 200 was sent
Sent200 == \E i \in 1..Len(sent) : sent[i].status = 200

\* C16: the steps of a request come in the order extraction, fetch,
\* classification, model call, response: GitHub is asked only with the
\* identifier extracted from a matching URL, a model is called only after
\* the fetch returned a snapshot (never after the metadata request failed)
\* and the context was computed from it, and 200 is answered only after a
\* model call returned a text that is not empty
C16_PipelineOrder ==
    /\ ghCalls # <<>> =>
          /\ UrlMatches(body)
          /\ ident # NoIdent
          /\ ident = extractRepoDetails(body)
    /\ ghCalls = <<>> => (ident = NoIdent /\ ~Returned)
    /\ Returned => (ghCalls # <<>> /\ Classified)
    /\ Classified => (Returned /\ context = ContextOf(repoData))
    /\ modelCalls # <<>> =>
          /\ Returned
          /\ Classified
          /\ ~(sub.meta = "rejected")
          /\ github.meta.ok
          /\ \A r \in DOMAIN sub : sub[r] # "pending"
    /\ response.defined => modelCalls # <<>>
    /\ Sent200 =>
          /\ pc = "done"
          /\ Len(sent) = 1
          /\ modelCalls # <<>>
          /\ gemini[Candidate(modelCalls[Len(modelCalls)])].kind = "ok"
          /\ response.defined
          /\ response.text # <<>>
          /\ \A i \in 1..(Len(modelCalls) - 1) : Failed(i)

\* a request answered 200 by the third candidate, after the identifier was
\* extracted, the snapshot fetched and the context computed
C16_Witness ==
    /\ pc = "done"
    /\ Sent200
    /\ ident # NoIdent
    /\ ghCalls # <<>>
    /\ Returned
    /\ Classified
    /\ Len(modelCalls) = 3
    /\ response.text # <<>>


(***************************************************************************)
(* The context and the tree of the repository                              *)
(***************************************************************************)

\* the path has a backend-config filename as a substring
HasConfigName(path) ==
    \E c \in 1..Len(backendConfigs) :
        \E i \in 0..(Len(path) - Len(backendConfigs[c])) :
            SubSeq(path, i + 1, i + Len(backendConfigs[c])) = backendConfigs[c]

\* places in the tree of the repository of the nodes that survive the
\* filter: a blob or a tree, at most 3 segments, among the first 100 such
Survivors ==
    {i \in 1..Len(UsedTree) :
        Qualifies(UsedTree[i]) /\ Rank(UsedTree, i) <= FILE_LIMIT}

\* the name of the repository or its description has a DSA keyword
NamedAsDSA ==
    \E k \in 1..Len(dsaKeywords) :
        \/ HasWord(ident.repo, dsaKeywords[k])
        \/ HasWord(OrEmpty(github.meta.description), dsaKeywords[k])

\* C17: the context is computed from the filtered file list, not from the
\* whole tree: with no keyword in the name and the description, the context
\* is DSA whenever the tree request failed or fewer than 10 paths, none with
\* a backend-config name, survive the filter, whatever the size of the
\* whole tree and whatever lies deeper than 3 segments; otherwise it is
\* Backend
C17_FilteredListDecides ==
    (Classified /\ ~NamedAsDSA) =>
        IF \/ sub.tree = "rejected"
           \/ /\ Cardinality(Survivors) < SMALL_REPO_FILES
              /\ \A i \in Survivors : ~HasConfigName(UsedTree[i].path)
        THEN context = "DSA"
        ELSE context = "Backend"

\* a repository of 10 or more files with a backend-config file deeper than
\* 3 segments, fewer than 10 of them listed, classified DSA
C17_Witness ==
    /\ Classified
    /\ ~NamedAsDSA
    /\ sub.tree = "fulfilled"
    /\ Len(UsedTree) >= SMALL_REPO_FILES
    /\ \E i \in 1..Len(UsedTree) :
          /\ UsedTree[i].type = "blob"
          /\ HasConfigName(UsedTree[i].path)
          /\ Segments(UsedTree[i].path) > DEPTH_LIMIT
    /\ Cardinality(Survivors) < SMALL_REPO_FILES
    /\ context = "DSA"


(***************************************************************************)
(* A reply without text                                                    *)
(***************************************************************************)

\* the candidate called last returned, and it returned no text
EmptyReply ==
    /\ modelCalls # <<>>
    /\ gemini[Candidate(modelCalls[Len(modelCalls)])].kind = "ok"
    /\ gemini[Candidate(modelCalls[Len(modelCalls)])].text = <<>>

\* C18: a model call that returns without text ends the loop like a
\* success: no later candidate is called, and the request ends with status
\* 500 and the body {"error":"AI failed to respond"}, without details and
\* not with the error of all candidates failing
C18_EmptyReplyStops ==
    /\ EmptyReply =>
          /\ \A i \in 1..(Len(modelCalls) - 1) : Failed(i)
          /\ \A i \in 1..Len(modelCalls) : modelCalls[i] = modelNames[i]
          /\ ~SentConnectError
          /\ pc = "done" =>
                /\ AnsweredWith(500, ErrorBody("AI failed to respond"))
                /\ response = [defined |-> TRUE, text |-> <<>>]
    /\ (pc = "done" /\ response.defined /\ response.text = <<>>) =>
          /\ EmptyReply
          /\ AnsweredWith(500, ErrorBody("AI failed to respond"))

\* the second candidate returned no text after the first had failed; the
\* two candidates left were not called and the request is answered
C18_Witness ==
    /\ pc = "done"
    /\ EmptyReply
    /\ Len(modelCalls) = 2
    /\ Len(modelCalls) < Len(modelNames)
    /\ Failed(1)
    /\ sent = <<Reply(500, ErrorBody("AI failed to respond"))>>

====
